---- MODULE Spec2Model ----
(***************************************************************************)
(* A model of the widget tree (src/src/ui.rs) and of the frame driver      *)
(* (src/src/runty8-runtime/src/lib.rs) of runty8.                          *)
(*                                                                         *)
(* SpecTree   : a list of Elements is chosen, a Tree is built from it by   *)
(*              push and an Element by From<Vec<Element>>; events and draw *)
(*              passes are then run through both.                          *)
(* SpecDriver : the closure run_internal hands to event_loop, driven by    *)
(*              the ticks, input events and close signal of the platform.  *)
(***************************************************************************)
EXTENDS Integers, Sequences, FiniteSets, TLC

VARIABLES
    \* ---- widget tree (ui.rs)
    elems,      \* the Vec<Element> both trees are built from
    tree,       \* Tree::new().push(..)...: the tree built by push
    conv,       \* Element::from(elems): the Element holding Tree::with_children(elems)
    queue,      \* the caller's Vec<Msg> behind the DispatchEvent given to tree
    queueC,     \* the same for conv
    log,        \* recording of the on_event calls of the last pass through tree
    logC,       \* the same for conv
    surface,    \* recording of the draw calls of the last draw of tree
    surfaceC,   \* the same for conv
    last,       \* the last operation on the trees and its arguments
    passes,     \* number of on_event passes made
    \* ---- frame driver (runty8-runtime/src/lib.rs)
    pico8,        \* Pico8: `state` (the application's input model), `draw_data`
    game,         \* the application, Game::init(&mut pico8)
    input,        \* the input accumulator, Input::new()
    control_flow, \* winit's ControlFlow, as the closure last left it
    now,          \* the clock std::time::Instant::now() reads, in ns
    aborted,      \* the process died of a panic
    screen,       \* what the presentation backend shows
    handed,       \* the pixels last handed to do_draw
    steps,        \* the calls made while handling the last event, in order
    counts,       \* how many update, draw and present calls were made
    lastEvent,    \* the last event handled, and the state it was handled in
    history,      \* the input events handled so far
    closed,       \* a window-closed signal has been handled
    \* ---- map (runtime/map.rs)
    map,        \* Map::map, the array of sprite ids, indexed from 0
    mapOp,      \* the last call made on the map, its arguments and its outcome
    text,       \* the text last written by serialize, as edited since
    loaded,     \* what deserialize last returned
    sets,       \* number of mset calls made
    edits       \* number of edits made to the text

treeVars == <<elems, tree, conv, queue, queueC, log, logC, surface, surfaceC, last, passes>>

driverVars == <<pico8, game, input, control_flow, now, aborted, screen, handed,
                steps, counts, lastEvent, history, closed>>

mapVars == <<map, mapOp, text, loaded, sets, edits>>

vars == <<treeVars, driverVars, mapVars>>

\* ------------------------------------------------------------------ bounds

MaxChildren == 3
MaxPasses == 2
MaxTicks == 3       \* ticks handled
MaxInputs == 2      \* input events handled
WorkNs == 2000000   \* what an update or a draw may take: nothing or 2 ms
GapNs == 20000000   \* an input event arrives at once or 20 ms later
MaxSets == 1        \* mset calls made on the map built
MaxEdits == 2       \* characters typed into or deleted from a saved map text
MaxSlice == 2       \* items of a short slice handed to from_slice

\* The map is kept on a smaller grid than the source's 128 x 64 cells, laid out
\* the same way: screens of SCREEN_SIZE_PIXELS / Sprite::WIDTH sprites a side
\* (128 / 8 in the source), SCREENS_WIDTH across (8 in the source) and
\* SCREENS_HEIGHT down (4 in the source).
SCREEN_SIZE_PIXELS == 8
SCREENS_WIDTH == 2
SCREENS_HEIGHT == 2

\* ------------------------------------------------------------ widget values

Events == {"Click", "Move"}
Cursors == {<<1, 1>>, <<3, 1>>}

\* A recording button: counts its on_event calls and, on a click inside its
\* region, reports `emit` messages. The two regions overlap: <<1, 1>> lies in
\* A's alone, <<3, 1>> in both.
ButtonA == [kind |-> "Button", name |-> "A", x |-> 0, y |-> 0, w |-> 4, h |-> 4,
            emit |-> 1, calls |-> 0]
ButtonB == [kind |-> "Button", name |-> "B", x |-> 2, y |-> 0, w |-> 4, h |-> 4,
            emit |-> 2, calls |-> 0]

\* DrawFn::new(f)
DrawFnNew(f) == [kind |-> "DrawFn", f |-> f]

\* Tree::with_children
TreeWithChildren(children) == [kind |-> "Tree", children |-> children]

\* Tree::new
TreeNew == TreeWithChildren(<<>>)

\* Element::new / From<T> for Element: the box around one widget
ElementNew(widget) == [widget |-> widget]

\* Tree::push, a plausible slip of it (inserting at the front)
TreePushFront(t, element) == [t EXCEPT !.children = <<element>> \o @]

\* Tree::push
TreePush(t, element) == [t EXCEPT !.children = Append(@, element)]

\* From<Vec<Element>> for Element
ElementFromVec(children) == ElementNew(TreeWithChildren(children))

Leaves == {ButtonA, ButtonB, DrawFnNew("deco")}
Nested == {TreeWithChildren(<<ElementNew(ButtonB), ElementNew(DrawFnNew("deco"))>>),
           TreeWithChildren(<<ElementNew(ButtonA), ElementNew(ButtonB)>>)}
Widgets == Leaves \cup Nested
Elements == {ElementNew(wd) : wd \in Widgets}

SeqsUpTo(S, n) == UNION {[1..k -> S] : k \in 0..n}

\* ------------------------------------------------------ on_event (ui.rs)

\* DispatchEvent::new: the handle borrows the caller's queue; `log` is the
\* recording the test widgets keep of the on_event calls they receive.
DispatchEventNew(q) == [queue |-> q, log |-> <<>>]

\* DispatchEvent::call, a plausible slip of it (pushing at the front)
DispatchCallFront(d, msg) == [d EXCEPT !.queue = <<msg>> \o @]

\* DispatchEvent::call
DispatchCall(d, msg) == [d EXCEPT !.queue = Append(@, msg)]

Hit(b, cursor) ==
    /\ b.x <= cursor[1] /\ cursor[1] < b.x + b.w
    /\ b.y <= cursor[2] /\ cursor[2] < b.y + b.h

\* The messages a button reports for one event, in the order of its calls.
ButtonMsgs(b, event, cursor) ==
    IF event = "Click" /\ Hit(b, cursor)
    THEN [k \in 1..b.emit |-> [src |-> b.name, n |-> k]]
    ELSE <<>>

RECURSIVE CallAll(_, _, _)
CallAll(d, msgs, k) ==
    IF k > Len(msgs) THEN d ELSE CallAll(DispatchCall(d, msgs[k]), msgs, k + 1)

\* Widget::on_event of the recording button
ButtonOnEvent(b, event, cursor, d) ==
    [widget |-> [b EXCEPT !.calls = @ + 1],
     d |-> CallAll(d, ButtonMsgs(b, event, cursor), 1)]

\* The slip of a DrawFn that answers an event with a message.
DrawFnOnEventNoisy(w, event, cursor, d) ==
    [widget |-> w, d |-> DispatchCall(d, [src |-> w.f, n |-> 0])]

\* Widget::on_event of DrawFn: the empty body
DrawFnOnEvent(w, event, cursor, d) == [widget |-> w, d |-> d]

RECURSIVE WidgetOnEvent(_, _, _, _, _)
RECURSIVE TreeForEachMut(_, _, _, _, _, _)
RECURSIVE TreeForEachMutStopping(_, _, _, _, _, _)

\* A plausible slip of the loop of Tree::on_event: the pass stops at the first
\* child that pushed a message (event consumption).
TreeForEachMutStopping(children, i, event, cursor, path, d) ==
    IF i > Len(children) THEN [children |-> children, d |-> d]
    ELSE LET r == WidgetOnEvent(children[i].widget, event, cursor, Append(path, i), d)
             next == [children EXCEPT ![i] = [widget |-> r.widget]]
         IN  IF Len(r.d.queue) > Len(d.queue)
             THEN [children |-> next, d |-> r.d]
             ELSE TreeForEachMutStopping(next, i + 1, event, cursor, path, r.d)

\* The loop of Tree::on_event: `for element in self.children.iter_mut()`,
\* from the i-th child on.
TreeForEachMut(children, i, event, cursor, path, d) ==
    IF i > Len(children) THEN [children |-> children, d |-> d]
    ELSE LET r == WidgetOnEvent(children[i].widget, event, cursor, Append(path, i), d)
         IN  TreeForEachMut([children EXCEPT ![i] = [widget |-> r.widget]],
                            i + 1, event, cursor, path, r.d)

\* The slip of a tree that, as a child of another tree, keeps the event to
\* itself.
TreeOnEventShallow(t, event, cursor, path, d) ==
    IF path # <<>> THEN [widget |-> t, d |-> d]
    ELSE LET r == TreeForEachMut(t.children, 1, event, cursor, path, d)
         IN  [widget |-> [t EXCEPT !.children = r.children], d |-> r.d]

\* Widget::on_event of Tree
TreeOnEvent(t, event, cursor, path, d) ==
    LET r == TreeForEachMut(t.children, 1, event, cursor, path, d)
    IN  [widget |-> [t EXCEPT !.children = r.children], d |-> r.d]

\* element.widget.on_event(..): the call through Box<dyn Widget>. The call is
\* recorded with the place of the widget under the root (`path`) and the
\* arguments it was given.
WidgetOnEvent(wd, event, cursor, path, d) ==
    LET seen == [d EXCEPT !.log = Append(@, [path |-> path, event |-> event,
                                             cursor |-> cursor])]
    IN  CASE wd.kind = "Tree" -> TreeOnEvent(wd, event, cursor, path, seen)
          [] wd.kind = "DrawFn" -> DrawFnOnEvent(wd, event, cursor, seen)
          [] wd.kind = "Button" -> ButtonOnEvent(wd, event, cursor, seen)

\* ---------------------------------------------------------- draw (ui.rs)

\* The DrawContext is kept as the sequence of paints made on it (`canvas`),
\* each with the place of the widget that made it: a later paint lies over an
\* earlier one. `calls` is the recording of the draw calls the widgets receive.
NewDrawContext == [calls |-> <<>>, canvas |-> <<>>]

Paint(ctx, path, what) ==
    [ctx EXCEPT !.canvas = Append(@, [path |-> path, paint |-> what])]

RECURSIVE WidgetDraw(_, _, _)
RECURSIVE TreeForEach(_, _, _, _)
RECURSIVE TreeForEachRev(_, _, _, _)

\* A plausible slip of the loop of Tree::draw: children painted back to front.
TreeForEachRev(children, i, path, ctx) ==
    IF i > Len(children) THEN ctx
    ELSE LET j == Len(children) + 1 - i
         IN  TreeForEachRev(children, i + 1, path,
                            WidgetDraw(children[j].widget, Append(path, j), ctx))

\* The loop of Tree::draw: `for element in self.children.iter()`
TreeForEach(children, i, path, ctx) ==
    IF i > Len(children) THEN ctx
    ELSE TreeForEach(children, i + 1, path,
                     WidgetDraw(children[i].widget, Append(path, i), ctx))

\* Widget::draw of Tree
TreeDraw(t, path, ctx) == TreeForEach(t.children, 1, path, ctx)

\* Widget::draw of DrawFn: (self.f)(draw)
DrawFnDraw(w, path, ctx) == Paint(ctx, path, w.f)

\* Widget::draw of the recording button
ButtonDraw(b, path, ctx) == Paint(ctx, path, b.name)

\* element.widget.draw(draw)
WidgetDraw(wd, path, ctx) ==
    LET seen == [ctx EXCEPT !.calls = Append(@, path)]
    IN  CASE wd.kind = "Tree" -> TreeDraw(wd, path, seen)
          [] wd.kind = "DrawFn" -> DrawFnDraw(wd, path, seen)
          [] wd.kind = "Button" -> ButtonDraw(wd, path, seen)

\* -------------------------------------------------- map (runtime/map.rs)

SpriteWidth == 8
SPRITES_PER_SCREEN_ROW == SCREEN_SIZE_PIXELS \div SpriteWidth
WIDTH_SPRITES == SCREENS_WIDTH * SPRITES_PER_SCREEN_ROW
HEIGHT_SPRITES == SCREENS_HEIGHT * SPRITES_PER_SCREEN_ROW
MAP_SIZE == WIDTH_SPRITES * HEIGHT_SPRITES

\* The sprite ids written by mset: 0x0A and 0xAB.
SpriteIds == {10, 171}

\* Map::new
MapNew == [i \in 0..(MAP_SIZE - 1) |-> IF i < 3 THEN 1 ELSE 0]

\* Map::from_slice: Map::new, then m.map[i] = s for every item of v in turn;
\* the item past the end of the array panics at the indexing and no map is made.
RECURSIVE MapFromSliceLoop(_, _, _)
MapFromSliceLoop(m, v, i) ==
    IF i >= Len(v)
    THEN [outcome |-> "ok", index |-> i, map |-> m]
    ELSE IF i \notin DOMAIN m
    THEN [outcome |-> "index out of bounds", index |-> i, map |-> m]
    ELSE MapFromSliceLoop([m EXCEPT ![i] = v[i + 1]], v, i + 1)

MapFromSlice(v) == MapFromSliceLoop(MapNew, v, 0)

\* Map::mget: the assertion panics, the indexing panics, or the cell is read.
MapMget(m, cel_x, cel_y) ==
    LET index == cel_x + cel_y * WIDTH_SPRITES
    IN  IF ~(index <= MAP_SIZE)
        THEN [outcome |-> "assertion failed", index |-> index, value |-> 0]
        ELSE IF index \notin DOMAIN m
        THEN [outcome |-> "index out of bounds", index |-> index, value |-> 0]
        ELSE [outcome |-> "ok", index |-> index, value |-> m[index]]

\* The slip of an mset that takes the column for the row.
MapMsetTransposed(m, cel_x, cel_y, sprite) ==
    LET index == cel_y + cel_x * WIDTH_SPRITES
    IN  IF ~(index <= MAP_SIZE)
        THEN [outcome |-> "assertion failed", index |-> index, map |-> m]
        ELSE IF index \notin DOMAIN m
        THEN [outcome |-> "index out of bounds", index |-> index, map |-> m]
        ELSE [outcome |-> "ok", index |-> index, map |-> [m EXCEPT ![index] = sprite]]

\* Map::mset
MapMset(m, cel_x, cel_y, sprite) ==
    LET index == cel_x + cel_y * WIDTH_SPRITES
    IN  IF ~(index <= MAP_SIZE)
        THEN [outcome |-> "assertion failed", index |-> index, map |-> m]
        ELSE IF index \notin DOMAIN m
        THEN [outcome |-> "index out of bounds", index |-> index, map |-> m]
        ELSE [outcome |-> "ok", index |-> index, map |-> [m EXCEPT ![index] = sprite]]

\* Map::iter / self.map.iter(): the cells in index order
MapIter(m) == [i \in 1..MAP_SIZE |-> m[i - 1]]

Digits == <<"0", "1", "2", "3", "4", "5", "6", "7", "8", "9">>
UpperLetters == <<"A", "B", "C", "D", "E", "F">>
LowerLetters == <<"a", "b", "c", "d", "e", "f">>

\* {:X}: the upper-case hex digits of n, without leading zeros
RECURSIVE UpperHex(_)
UpperHex(n) ==
    LET d == n % 16
        c == IF d < 10 THEN Digits[d + 1] ELSE UpperLetters[d - 9]
    IN  IF n < 16 THEN <<c>> ELSE Append(UpperHex(n \div 16), c)

\* {:0>w}: filled with "0" on the left up to the width
RECURSIVE PadLeft(_, _)
PadLeft(str, width) ==
    IF Len(str) >= width THEN str ELSE PadLeft(<<"0">> \o str, width)

\* The slip of formatting without the fill: {:X}
FormatCellUnpadded(n) == UpperHex(n)

\* format!("{:0>2X}", n)
FormatCell(n) == PadLeft(UpperHex(n), 2)

\* Itertools::join
RECURSIVE Join(_, _)
Join(strs, sep) ==
    IF Len(strs) = 0 THEN <<>>
    ELSE IF Len(strs) = 1 THEN strs[1]
    ELSE strs[1] \o <<sep>> \o Join(Tail(strs), sep)

\* Itertools::chunks: runs of n items, the last one maybe shorter
Chunks(items, n) ==
    [k \in 1..((Len(items) + n - 1) \div n) |->
        SubSeq(items, (k - 1) * n + 1,
               IF k * n < Len(items) THEN k * n ELSE Len(items))]

\* Serialize for Map: serialize
Serialize(m) ==
    LET rows == Chunks(MapIter(m), WIDTH_SPRITES)
    IN  Join([k \in 1..Len(rows) |->
                 Join([j \in 1..Len(rows[k]) |-> FormatCell(rows[k][j])], " ")],
             "\n")

Place(c, chars) == CHOOSE i \in 1..Len(chars) : chars[i] = c
Among(c, chars) == \E i \in 1..Len(chars) : chars[i] = c

\* The slip of reading the digits in base 10: c.to_digit(10)
ToDigit10(c) == IF Among(c, Digits) THEN Place(c, Digits) - 1 ELSE -1

\* (c as char).to_digit(16), -1 for None
ToDigit(c) ==
    IF Among(c, Digits) THEN Place(c, Digits) - 1
    ELSE IF Among(c, LowerLetters) THEN Place(c, LowerLetters) + 9
    ELSE IF Among(c, UpperLetters) THEN Place(c, UpperLetters) + 9
    ELSE -1

\* filter_map: the values of the characters that are digits, in order
FilterDigits(str) ==
    LET found == SelectSeq(str, LAMBDA c : ToDigit(c) >= 0)
    IN  [i \in 1..Len(found) |-> ToDigit(found[i])]

\* Itertools::tuples: the complete pairs, a last single item being dropped
Tuples(items) == [k \in 1..(Len(items) \div 2) |-> <<items[2 * k - 1], items[2 * k]>>]

\* Map::deserialize: Ok(map), or Err with the number of bytes found
Deserialize(str) ==
    LET pairs == Tuples(FilterDigits(str))
        bytes == [k \in 1..Len(pairs) |-> (pairs[k][1] * 16 + pairs[k][2]) % 256]
    IN  IF Len(bytes) = MAP_SIZE
        THEN [ok |-> TRUE, map |-> [i \in 0..(MAP_SIZE - 1) |-> bytes[i + 1]],
              error |-> 0]
        ELSE [ok |-> FALSE, map |-> <<>>, error |-> Len(bytes)]

NoCall == [op |-> "none", after |-> "none", outcome |-> "ok", before |-> MapNew]
NotLoaded == [ok |-> FALSE, map |-> <<>>, error |-> -1]

InitMap ==
    /\ map = MapNew
    /\ mapOp = NoCall
    /\ text = <<>>
    /\ loaded = NotLoaded
    /\ sets = 0
    /\ edits = 0

\* A panic ends the process.
MapAlive == mapOp.outcome = "ok"

Called(op, args, r) ==
    [op |-> op, after |-> mapOp.op, outcome |-> r.outcome, before |-> map,
     args |-> args, result |-> r]

\* The slices handed to from_slice: the short ones, one that fills the map
\* and one that is an item too long.
Slices ==
    UNION {[1..n -> SpriteIds] : n \in 0..MaxSlice}
        \cup {[i \in 1..MAP_SIZE |-> 171], [i \in 1..(MAP_SIZE + 1) |-> 10]}

\* map = Map::from_slice(v), the map the calls that follow are made on; a
\* panic leaves no map.
FromSlice(v) ==
    /\ MapAlive
    /\ mapOp.op = "none"
    /\ LET r == MapFromSlice(v)
       IN  /\ map' = (IF r.outcome = "ok" THEN r.map ELSE map)
           /\ mapOp' = Called("from_slice", <<v>>,
                              [outcome |-> r.outcome, index |-> r.index])
    /\ UNCHANGED <<text, loaded, sets, edits, treeVars, driverVars>>

\* map.mset(cel_x, cel_y, sprite)
Mset(cel_x, cel_y, sprite) ==
    /\ MapAlive
    /\ sets < MaxSets
    /\ LET r == MapMset(map, cel_x, cel_y, sprite)
       IN  /\ map' = r.map
           /\ mapOp' = Called("mset", <<cel_x, cel_y, sprite>>,
                              [outcome |-> r.outcome, index |-> r.index, value |-> sprite])
    /\ sets' = sets + 1
    /\ UNCHANGED <<text, loaded, edits, treeVars, driverVars>>

\* map.mget(cel_x, cel_y)
Mget(cel_x, cel_y) ==
    /\ MapAlive
    /\ mapOp' = Called("mget", <<cel_x, cel_y>>, MapMget(map, cel_x, cel_y))
    /\ UNCHANGED <<map, text, loaded, sets, edits, treeVars, driverVars>>

\* text = map.serialize()
Save ==
    /\ MapAlive
    /\ text' = Serialize(map)
    /\ mapOp' = Called("serialize", <<>>, [outcome |-> "ok"])
    /\ edits' = 0
    /\ UNCHANGED <<map, loaded, sets, treeVars, driverVars>>

\* Map::deserialize(text)
Load ==
    /\ MapAlive
    /\ mapOp.op \in {"serialize", "edit"}
    /\ loaded' = Deserialize(text)
    /\ mapOp' = Called("deserialize", <<text>>, [outcome |-> "ok"])
    /\ UNCHANGED <<map, text, sets, edits, treeVars, driverVars>>

NextMap ==
    \/ \E v \in Slices : FromSlice(v)
    \/ \E cel_x \in 0..WIDTH_SPRITES, cel_y \in 0..HEIGHT_SPRITES, sprite \in SpriteIds :
          Mset(cel_x, cel_y, sprite)
    \/ \E cel_x \in 0..WIDTH_SPRITES, cel_y \in 0..HEIGHT_SPRITES : Mget(cel_x, cel_y)
    \/ Save
    \/ Load

\* What is typed into a map file by hand: a lower-case hex digit, a decimal
\* digit, a letter that is no hex digit, a line break.
Typed == {"f", "7", "G", "\n"}

\* A character typed into the saved text before position at
Insert(at, ch) ==
    /\ mapOp.op \in {"serialize", "edit"}
    /\ edits < MaxEdits
    /\ text' = SubSeq(text, 1, at - 1) \o <<ch>> \o SubSeq(text, at, Len(text))
    /\ mapOp' = Called("edit", <<at, ch>>, [outcome |-> "ok"])
    /\ edits' = edits + 1
    /\ UNCHANGED <<map, loaded, sets, treeVars, driverVars>>

\* The character at position at deleted from the saved text
Delete(at) ==
    /\ mapOp.op \in {"serialize", "edit"}
    /\ edits < MaxEdits
    /\ text' = SubSeq(text, 1, at - 1) \o SubSeq(text, at + 1, Len(text))
    /\ mapOp' = Called("edit", <<at>>, [outcome |-> "ok"])
    /\ edits' = edits + 1
    /\ UNCHANGED <<map, loaded, sets, treeVars, driverVars>>

\* The text of the new map, edited by hand and read back.
NextCodec ==
    \/ mapOp.op = "none" /\ Save
    \/ \E at \in 1..(Len(text) + 1), ch \in Typed : Insert(at, ch)
    \/ \E at \in 1..Len(text) : Delete(at)
    \/ Load

\* ------------------------------------- frame driver (runty8-runtime lib.rs)

Keys == {"Left", "X"}
InputEvents == [key : Keys, down : BOOLEAN]
Durations == {0, WorkNs}
Gaps == {0, GapNs}

Poll == [kind |-> "Poll"]
Exit == [kind |-> "Exit"]
WaitUntil(t) == [kind |-> "WaitUntil", at |-> t]

\* Input::new(): nothing held
InputNew == [keys |-> {}]

\* Input::on_event: the accumulator takes the event in
InputOnEvent(inp, input_event) ==
    IF input_event.down
    THEN [inp EXCEPT !.keys = @ \cup {input_event.key}]
    ELSE [inp EXCEPT !.keys = @ \ {input_event.key}]

\* What the application's draw leaves in the pixel buffer for a game state.
Render(g) == [frame |-> g.updates, keys |-> g.seen.keys]

\* No frame: what is shown, and was handed over, before the first tick.
NoPixels == [frame |-> -1, keys |-> {}]

\* Pico8::new(resources)
Pico8New == [state |-> InputNew, draw_data |-> [frame |-> 0, keys |-> {}]]

\* Game::init(&mut pico8)
GameInit(p) == [updates |-> 0, seen |-> p.state]

Step(s, name) == [s EXCEPT !.steps = Append(@, name)]

\* pico8.state.update_input(&input): the input model takes over what the
\* accumulator holds
UpdateInput(s) == Step([s EXCEPT !.pico8.state = s.input], "update_input")

\* game.update(&mut pico8): the application reads the input model; it takes
\* `took` ns.
GameUpdate(s, took) ==
    Step([s EXCEPT !.game = [updates |-> @.updates + 1, seen |-> s.pico8.state],
                   !.counts.update = @ + 1,
                   !.now = @ + took], "update")

\* game.draw(&mut pico8): the application paints its state into draw_data; it
\* takes `took` ns.
GameDraw(s, took) ==
    Step([s EXCEPT !.pico8.draw_data = Render(s.game),
                   !.counts.draw = @ + 1,
                   !.now = @ + took], "draw")

fps == 30
nanoseconds_per_frame == 1000000000 \div fps

\* The slip of a set_next_timer that leaves the control flow as it is.
SetNextTimerForgotten(s) == Step(s, "set_next_timer")

\* event_loop::set_next_timer
SetNextTimer(s) ==
    Step([s EXCEPT !.control_flow = WaitUntil(s.now + nanoseconds_per_frame)],
         "set_next_timer")

\* The slip of a do_draw that drops a frame it cannot present and goes on.
DoDrawRecovering(s, pixels, ok) ==
    Step([s EXCEPT !.handed = pixels,
                   !.counts.present = @ + 1,
                   !.screen = IF ok THEN pixels ELSE @], "do_draw")

\* event_loop::do_draw: the pixels become the texture shown, or one of the
\* unwraps panics (`ok` false).
DoDraw(s, pixels, ok) ==
    Step([s EXCEPT !.handed = pixels,
                   !.counts.present = @ + 1,
                   !.screen = IF ok THEN pixels ELSE @,
                   !.aborted = ~ok], "do_draw")

\* The slip of presenting before arming the timer.
DrawClosurePresentFirst(s, pixels, ok) == SetNextTimer(DoDraw(s, pixels, ok))

\* The `draw` closure event_loop hands to on_event
DrawClosure(s, pixels, ok) == DoDraw(SetNextTimer(s), pixels, ok)

\* The slip of drawing the state before updating it.
OnTickDrawFirst(s, tu, td, ok) ==
    LET drawn == GameUpdate(GameDraw(UpdateInput(s), td), tu)
    IN  DrawClosure(drawn, drawn.pico8.draw_data, ok)

\* The slip of leaving the merge of the accumulator out of the tick.
OnTickNoMerge(s, tu, td, ok) ==
    LET drawn == GameDraw(GameUpdate(Step(s, "update_input"), tu), td)
    IN  DrawClosure(drawn, drawn.pico8.draw_data, ok)

\* The slip of emptying the accumulator once it is merged.
OnTickResetInput(s, tu, td, ok) ==
    LET drawn == GameDraw(GameUpdate(UpdateInput(s), tu), td)
    IN  [DrawClosure(drawn, drawn.pico8.draw_data, ok) EXCEPT !.input = InputNew]

\* on_event, Event::Tick
OnTick(s, tu, td, ok) ==
    LET drawn == GameDraw(GameUpdate(UpdateInput(s), tu), td)
    IN  DrawClosure(drawn, drawn.pico8.draw_data, ok)

\* The slip of applying an input event at once.
OnInputApplied(s, input_event) ==
    Step([s EXCEPT !.input = InputOnEvent(@, input_event),
                   !.pico8.state = InputOnEvent(@, input_event)], "input.on_event")

\* on_event, Event::Input
OnInput(s, input_event) ==
    Step([s EXCEPT !.input = InputOnEvent(@, input_event)], "input.on_event")

\* on_event, Event::WindowClosed
OnWindowClosed(s) == [s EXCEPT !.control_flow = Exit]

\* The on_event closure of run_internal
RunOnEvent(s, event, tu, td, ok) ==
    CASE event.type = "Tick" -> OnTick(s, tu, td, ok)
      [] event.type = "Input" -> OnInput(s, event.input_event)
      [] event.type = "WindowClosed" -> OnWindowClosed(s)

\* The state the closure works on, as it is when an event arrives at time t.
Captured(t) ==
    [pico8 |-> pico8, game |-> game, input |-> input, control_flow |-> control_flow,
     now |-> t, aborted |-> aborted, screen |-> screen, handed |-> handed,
     steps |-> <<>>, counts |-> counts]

Before == [pico8 |-> pico8, game |-> game, input |-> input,
           control_flow |-> control_flow, screen |-> screen, counts |-> counts]

Store(r) ==
    /\ pico8' = r.pico8
    /\ game' = r.game
    /\ input' = r.input
    /\ control_flow' = r.control_flow
    /\ now' = r.now
    /\ aborted' = r.aborted
    /\ screen' = r.screen
    /\ handed' = r.handed
    /\ steps' = r.steps
    /\ counts' = r.counts

InitDriver ==
    /\ pico8 = Pico8New
    /\ game = GameInit(Pico8New)
    /\ input = InputNew
    /\ control_flow = Poll
    /\ now = 0
    /\ aborted = FALSE
    /\ screen = NoPixels
    /\ handed = NoPixels
    /\ steps = <<>>
    /\ counts = [update |-> 0, draw |-> 0, present |-> 0]
    /\ lastEvent = [type |-> "none"]
    /\ history = <<>>
    /\ closed = FALSE

\* event_loop.run calls the closure for every event that from_winit converts,
\* until the process dies. Neither the closure given to event_loop.run nor
\* on_event reads control_flow: an event that reaches the closure after it has
\* set ControlFlow::Exit is handled like any other.
Running == ~aborted

\* When the loop wakes for a tick: at startup at once, later when the armed
\* deadline is reached (or late, when input kept the loop busy).
TickTime == IF control_flow.kind = "WaitUntil" /\ control_flow.at > now
            THEN control_flow.at ELSE now

Handled(type, t, input_event) ==
    [type |-> type, at |-> t, after |-> lastEvent.type, before |-> Before,
     input_event |-> input_event]

\* A tick: the deadline is reached and the closure handles Event::Tick.
Tick(tu, td, ok) ==
    /\ Running
    /\ counts.update < MaxTicks
    /\ Store(RunOnEvent(Captured(TickTime), [type |-> "Tick"], tu, td, ok))
    /\ lastEvent' = Handled("Tick", TickTime, "none")
    /\ UNCHANGED <<history, closed, treeVars, mapVars>>

\* An input event arrives and the closure handles Event::Input.
InputArrives(input_event, gap) ==
    /\ Running
    /\ Len(history) < MaxInputs
    /\ Store(RunOnEvent(Captured(now + gap),
                        [type |-> "Input", input_event |-> input_event], 0, 0, TRUE))
    /\ lastEvent' = Handled("Input", now + gap, input_event)
    /\ history' = Append(history, input_event)
    /\ UNCHANGED <<closed, treeVars, mapVars>>

\* A window-closed signal arrives, the first or a later one, and the closure
\* handles Event::WindowClosed.
WindowClosed ==
    /\ Running
    /\ Store(RunOnEvent(Captured(now), [type |-> "WindowClosed"], 0, 0, TRUE))
    /\ lastEvent' = Handled("WindowClosed", now, "none")
    /\ closed' = TRUE
    /\ UNCHANGED <<history, treeVars, mapVars>>

NextDriver ==
    \/ \E tu \in Durations, td \in Durations, ok \in BOOLEAN : Tick(tu, td, ok)
    \/ \E input_event \in InputEvents, gap \in Gaps : InputArrives(input_event, gap)
    \/ WindowClosed

\* ------------------------------------------------- the tree's state machine

NoOp == [op |-> "none"]

InitTree ==
    /\ elems \in SeqsUpTo(Elements, MaxChildren)
    /\ tree = TreeNew
    /\ conv = ElementFromVec(elems)
    /\ queue = <<>> /\ queueC = <<>>
    /\ log = <<>> /\ logC = <<>>
    /\ surface = NewDrawContext /\ surfaceC = NewDrawContext
    /\ last = NoOp
    /\ passes = 0
    /\ InitDriver
    /\ InitMap

Built == Len(tree.children) = Len(elems)

\* tree = tree.push(element), with the next element of the list
Push ==
    /\ ~Built
    /\ tree' = TreePush(tree, elems[Len(tree.children) + 1])
    /\ last' = [op |-> "push", before |-> tree.children]
    /\ UNCHANGED <<elems, conv, queue, queueC, log, logC, surface, surfaceC, passes,
                   driverVars, mapVars>>

\* One event handled by both trees: tree.on_event(event, cursor, &mut
\* DispatchEvent::new(&mut queue)), and the same on the widget of conv.
OnEvent(event, cursor) ==
    /\ Built
    /\ passes < MaxPasses
    /\ LET r == WidgetOnEvent(tree, event, cursor, <<>>, DispatchEventNew(queue))
           c == WidgetOnEvent(conv.widget, event, cursor, <<>>, DispatchEventNew(queueC))
       IN  /\ tree' = r.widget
           /\ queue' = r.d.queue
           /\ log' = r.d.log
           /\ conv' = ElementNew(c.widget)
           /\ queueC' = c.d.queue
           /\ logC' = c.d.log
    /\ last' = [op |-> "on_event", event |-> event, cursor |-> cursor,
                before |-> tree.children, queue |-> queue]
    /\ passes' = passes + 1
    /\ UNCHANGED <<elems, surface, surfaceC, driverVars, mapVars>>

\* One draw of both trees on a fresh DrawContext
Draw ==
    /\ Built
    /\ surface' = WidgetDraw(tree, <<>>, NewDrawContext)
    /\ surfaceC' = WidgetDraw(conv.widget, <<>>, NewDrawContext)
    /\ last' = [op |-> "draw", before |-> tree.children]
    /\ UNCHANGED <<elems, tree, conv, queue, queueC, log, logC, passes, driverVars,
                   mapVars>>

NextTree ==
    \/ Push
    \/ \E event \in Events, cursor \in Cursors : OnEvent(event, cursor)
    \/ Draw

SpecTree == InitTree /\ [][NextTree]_vars

\* The frame driver alone: the application's tree is left out of it.
InitNoTree ==
    /\ elems = <<>>
    /\ tree = TreeNew
    /\ conv = ElementFromVec(<<>>)
    /\ queue = <<>> /\ queueC = <<>>
    /\ log = <<>> /\ logC = <<>>
    /\ surface = NewDrawContext /\ surfaceC = NewDrawContext
    /\ last = NoOp
    /\ passes = 0

InitLoop ==
    /\ InitDriver
    /\ InitNoTree
    /\ InitMap

SpecDriver == InitLoop /\ [][NextDriver]_vars

\* The map alone: cells written and read, the map saved and read back.
SpecMap == InitLoop /\ [][NextMap]_vars

\* The map's text alone: saved, edited by hand, read back.
SpecCodec == InitLoop /\ [][NextCodec]_vars

\* ============================================================ the claims

\* The entries of a recording made by the direct children of the root.
Direct(rec) == SelectSeq(rec, LAMBDA e : Len(e.path) = 1)
DirectPaths(paths) == SelectSeq(paths, LAMBDA q : Len(q) = 1)

\* Every button below wd has received exactly n on_event calls.
RECURSIVE CalledTimes(_, _)
CalledTimes(wd, n) ==
    CASE wd.kind = "Button" -> wd.calls = n
      [] wd.kind = "DrawFn" -> TRUE
      [] wd.kind = "Tree" ->
            \A i \in 1..Len(wd.children) : CalledTimes(wd.children[i].widget, n)

\* C1: one Tree.on_event call invokes on_event on every child exactly once, in
\* insertion order W1..Wn, with the event and cursor position the tree was
\* given, whether or not earlier children pushed messages.
C1_EveryChildOnceInOrder ==
    last.op = "on_event" =>
        /\ Len(Direct(log)) = Len(tree.children)
        /\ \A i \in 1..Len(tree.children) :
              /\ Direct(log)[i].path = <<i>>
              /\ Direct(log)[i].event = last.event
              /\ Direct(log)[i].cursor = last.cursor
        /\ CalledTimes(tree, passes)

\* A pass over three children in which the first child pushed a message.
C1_Witness ==
    /\ last.op = "on_event"
    /\ Len(tree.children) = 3
    /\ tree.children[1].widget.kind = "Button"
    /\ Len(queue) > Len(last.queue)
    /\ queue[Len(last.queue) + 1].src = tree.children[1].widget.name

\* The messages widget wd passes to dispatch.call for one event, in call order.
RECURSIVE Reported(_, _, _)
RECURSIVE ReportedFrom(_, _, _, _)
ReportedFrom(children, i, event, cursor) ==
    IF i > Len(children) THEN <<>>
    ELSE Reported(children[i].widget, event, cursor)
            \o ReportedFrom(children, i + 1, event, cursor)
Reported(wd, event, cursor) ==
    CASE wd.kind = "Button" -> ButtonMsgs(wd, event, cursor)
      [] wd.kind = "DrawFn" -> <<>>
      [] wd.kind = "Tree" -> ReportedFrom(wd.children, 1, event, cursor)

\* C2: after one Tree.on_event call the caller's queue is its content before
\* the call followed by exactly the messages passed to dispatch.call, in the
\* order of the calls across the children.
C2_QueueIsBeforeThenCalls ==
    last.op = "on_event" =>
        queue = last.queue \o ReportedFrom(last.before, 1, last.event, last.cursor)

\* A pass that found messages of an earlier pass in the queue and to which two
\* different children added messages.
C2_Witness ==
    /\ last.op = "on_event"
    /\ last.queue # <<>>
    /\ \E i, j \in (Len(last.queue) + 1)..Len(queue) :
          i < j /\ queue[i].src # queue[j].src

\* C9: one Tree.draw call invokes draw on every child exactly once in insertion
\* order (so a later child paints over an earlier one) and leaves the list of
\* children as it was.
C9_DrawEveryChildInOrder ==
    last.op = "draw" =>
        /\ DirectPaths(surface.calls) = [i \in 1..Len(tree.children) |-> <<i>>]
        /\ \A i, j \in 1..Len(surface.canvas) :
              i < j => surface.canvas[i].path[1] <= surface.canvas[j].path[1]
        /\ tree.children = last.before

\* A draw of a tree of three children of which the first two paint differently.
C9_Witness ==
    /\ last.op = "draw"
    /\ Len(tree.children) = 3
    /\ Len(surface.canvas) >= 3
    /\ surface.canvas[1].paint # surface.canvas[2].paint

\* C10: the tree built by push(E1)..push(En) and the tree converted from the
\* list [E1..En] have the same children in the same order, so they record the
\* same calls, yield the same messages and draw alike; each push appends at the
\* end and keeps the children there were.
C10_PushEqualsFromVec ==
    /\ passes = 0 => tree.children = SubSeq(elems, 1, Len(tree.children))
    /\ last.op = "push" =>
          /\ Len(tree.children) = Len(last.before) + 1
          /\ SubSeq(tree.children, 1, Len(last.before)) = last.before
    /\ Built =>
          /\ tree = conv.widget
          /\ log = logC
          /\ queue = queueC
          /\ surface = surfaceC

\* Both trees, built from three elements of which the first two differ, have
\* handled an event that made messages and have drawn.
C10_Witness ==
    /\ Built
    /\ Len(elems) = 3
    /\ elems[1] # elems[2]
    /\ queue # <<>>
    /\ last.op = "draw"

\* -------------------------------------------------- claims on the driver

\* The input state a sequence of input events adds up to: a key is held when
\* its last event in the sequence is a press.
Merged(h) ==
    [keys |-> {k \in Keys : \E i \in 1..Len(h) :
                  /\ h[i].key = k /\ h[i].down
                  /\ \A j \in (i + 1)..Len(h) : h[j].key # k}]

NoFrameStep(called) ==
    \A i \in 1..Len(called) : called[i] \notin {"update", "draw", "do_draw"}

\* C3: no update, draw or present runs between the input events received
\* between two ticks, and the update of the next tick observes an input state
\* into which all of them have been merged.
C3_InputsMergedAtNextTick ==
    /\ lastEvent.type = "Input" =>
          NoFrameStep(steps) /\ counts = lastEvent.before.counts
    /\ lastEvent.type = "Tick" => game.seen = Merged(history)

\* I1, I2, tick: two keys pressed one after the other, then the first update.
C3_Witness ==
    /\ lastEvent.type = "Tick"
    /\ lastEvent.after = "Input"
    /\ Len(history) = 2
    /\ history[1].down /\ history[2].down /\ history[1].key # history[2].key
    /\ counts.update = 1
    /\ game.seen.keys = Keys

C5_TickMergeUpdateDrawPresent ==
    lastEvent.type = "Tick" =>
        /\ SelectSeq(steps, LAMBDA c : c # "set_next_timer")
              = <<"update_input", "update", "draw", "do_draw">>
        /\ counts = [update |-> lastEvent.before.counts.update + 1,
                     draw |-> lastEvent.before.counts.draw + 1,
                     present |-> lastEvent.before.counts.present + 1]
        /\ input = lastEvent.before.input
        /\ pico8.state = lastEvent.before.input
        /\ game = [updates |-> lastEvent.before.game.updates + 1,
                   seen |-> lastEvent.before.input]
        /\ pico8.draw_data = Render(game)
        /\ handed = pico8.draw_data

\* A second tick whose update saw a key that the tick before had not seen.
C5_Witness ==
    /\ lastEvent.type = "Tick"
    /\ counts.update = 2
    /\ game.seen.keys # {}
    /\ lastEvent.before.game.seen.keys = {}
    /\ screen = pico8.draw_data

\* C6: absent input and close signals, the deadlines armed by consecutive
\* ticks are spaced by the frame interval, however long update and draw took.
C6_ConstantCadence ==
    (/\ lastEvent.type = "Tick"
     /\ lastEvent.after = "Tick"
     /\ lastEvent.before.control_flow.kind = "WaitUntil")
        => control_flow.at - lastEvent.before.control_flow.at = nanoseconds_per_frame

\* C7, as claimed: within a tick the timer is armed last, after the pixel
\* buffer was handed to presentation.
C7_ArmAfterPresent ==
    lastEvent.type = "Tick" =>
        steps = <<"update_input", "update", "draw", "do_draw", "set_next_timer">>

\* C7, amended: within a tick the timer is armed after the draw and before the
\* pixel buffer is handed to presentation: merge input, update, draw, arm the
\* next timer, present.
C7_ArmBeforePresent ==
    lastEvent.type = "Tick" =>
        /\ steps = <<"update_input", "update", "draw", "set_next_timer", "do_draw">>
        /\ control_flow = WaitUntil(now + nanoseconds_per_frame)

\* A tick whose update and draw took time, armed and presented.
C7_Witness ==
    /\ lastEvent.type = "Tick"
    /\ now > lastEvent.at
    /\ control_flow.kind = "WaitUntil"
    /\ ~aborted
    /\ screen = handed

\* C8: handling a raw input event only records it in the accumulator: the
\* application, its input model, the pixel buffer, what is shown and the
\* control flow are as before, no update, draw or present is made, and the
\* loop keeps waiting.
C8_InputOnlyRecorded ==
    lastEvent.type = "Input" =>
        /\ steps = <<"input.on_event">>
        /\ input.keys = IF lastEvent.input_event.down
                        THEN lastEvent.before.input.keys \cup {lastEvent.input_event.key}
                        ELSE lastEvent.before.input.keys \ {lastEvent.input_event.key}
        /\ game = lastEvent.before.game
        /\ pico8 = lastEvent.before.pico8
        /\ screen = lastEvent.before.screen
        /\ control_flow = lastEvent.before.control_flow
        /\ Running

\* A key pressed after a tick: the accumulator has it, the input model not yet.
C8_Witness ==
    /\ lastEvent.type = "Input"
    /\ lastEvent.after = "Tick"
    /\ input # lastEvent.before.input
    /\ pico8.state # input
    /\ control_flow.kind = "WaitUntil"

\* ------------------------------------------------ further claims on the tree

\* The tree without its DrawFn widgets, at every depth.
RECURSIVE WithoutDrawFn(_)
WithoutDrawFn(children) ==
    LET kept == SelectSeq(children, LAMBDA e : e.widget.kind # "DrawFn")
    IN  [i \in 1..Len(kept) |->
            IF kept[i].widget.kind = "Tree"
            THEN ElementNew(TreeWithChildren(WithoutDrawFn(kept[i].widget.children)))
            ELSE kept[i]]

\* C11: DrawFn.on_event is a no-op for every event and cursor position: it
\* adds nothing to the queue and changes nothing, so the messages of a pass
\* are those of the same tree without its DrawFn children.
C11_DrawFnOnEventNoOp ==
    last.op = "on_event" =>
        /\ \A i \in 1..Len(last.before) :
              last.before[i].widget.kind = "DrawFn" =>
                  /\ tree.children[i] = last.before[i]
                  /\ DrawFnOnEvent(last.before[i].widget, last.event, last.cursor,
                                   DispatchEventNew(last.queue))
                        = [widget |-> last.before[i].widget,
                           d |-> DispatchEventNew(last.queue)]
        /\ queue = WidgetOnEvent(TreeWithChildren(WithoutDrawFn(last.before)),
                                 last.event, last.cursor, <<>>,
                                 DispatchEventNew(last.queue)).d.queue

\* A click that reached a DrawFn lying between two buttons which both reported.
C11_Witness ==
    /\ last.op = "on_event"
    /\ last.event = "Click"
    /\ Len(tree.children) = 3
    /\ tree.children[1].widget.kind = "Button"
    /\ tree.children[2].widget.kind = "DrawFn"
    /\ tree.children[3].widget.kind = "Button"
    /\ Len(queue) >= Len(last.queue) + 2

\* The leaf widgets below a list of children, depth first and left to right,
\* and their places.
RECURSIVE LeavesOf(_, _)
LeavesOf(children, i) ==
    IF i > Len(children) THEN <<>>
    ELSE (IF children[i].widget.kind = "Tree"
          THEN LeavesOf(children[i].widget.children, 1)
          ELSE <<children[i]>>) \o LeavesOf(children, i + 1)

RECURSIVE LeafPaths(_, _, _)
LeafPaths(children, i, prefix) ==
    IF i > Len(children) THEN <<>>
    ELSE (IF children[i].widget.kind = "Tree"
          THEN LeafPaths(children[i].widget.children, 1, Append(prefix, i))
          ELSE <<Append(prefix, i)>>) \o LeafPaths(children, i + 1, prefix)

Range(f) == {f[i] : i \in DOMAIN f}
Column(rec, field) == [i \in 1..Len(rec) |-> rec[i][field]]

\* C16: with trees among the children, on_event reaches the leaf widgets depth
\* first and left to right, each once, and the messages (and the paints of a
\* draw) are those of the flat tree made of the same leaves in that order.
C16_NestingKeepsOrder ==
    /\ last.op = "on_event" =>
          /\ Column(SelectSeq(log, LAMBDA e :
                        e.path \in Range(LeafPaths(tree.children, 1, <<>>))), "path")
                = LeafPaths(tree.children, 1, <<>>)
          /\ queue = WidgetOnEvent(TreeWithChildren(LeavesOf(last.before, 1)),
                                   last.event, last.cursor, <<>>,
                                   DispatchEventNew(last.queue)).d.queue
    /\ last.op = "draw" =>
          Column(surface.canvas, "paint")
              = Column(WidgetDraw(TreeWithChildren(LeavesOf(tree.children, 1)),
                                  <<>>, NewDrawContext).canvas, "paint")

\* A click through a tree whose second child is a tree of two widgets, with a
\* button before it and one after it, all of which reported.
C16_Witness ==
    /\ last.op = "on_event"
    /\ last.event = "Click"
    /\ Len(tree.children) = 3
    /\ tree.children[1].widget.kind = "Button"
    /\ tree.children[2].widget.kind = "Tree"
    /\ tree.children[3].widget.kind = "Button"
    /\ Len(tree.children[2].widget.children) = 2
    /\ \E i, j, k \in 1..Len(queue) :
          /\ i < j /\ j < k /\ i > Len(last.queue)
          /\ queue[i].src = tree.children[1].widget.name
          /\ queue[j].src = tree.children[2].widget.children[1].widget.name
          /\ queue[k].src = tree.children[3].widget.name

\* ---------------------------------------------- further claims on the driver

\* The loop waits: the control flow is not Exit and the process is alive.
Waiting == control_flow.kind # "Exit" /\ ~aborted

\* C12, as claimed: whenever the loop waits (no window-closed signal handled,
\* the process alive), from startup on, a frame timer deadline is armed.
C12_TimerArmedWhenWaiting ==
    Waiting => control_flow.kind = "WaitUntil"

\* C12, amended: whenever the loop waits after the first tick was handled, a
\* frame timer deadline is armed; before the first tick the control flow is
\* the one the loop starts with and no deadline is armed.
C12_TimerArmedAfterFirstTick ==
    Waiting =>
        /\ counts.update >= 1 => control_flow.kind = "WaitUntil"
        /\ counts.update = 0 => control_flow = Poll

\* The loop waits for the deadline the second tick armed, an input event
\* having come in meanwhile.
C12_Witness ==
    /\ Waiting
    /\ counts.update = 2
    /\ lastEvent.type = "Input"
    /\ control_flow.kind = "WaitUntil"
    /\ control_flow.at > now

\* The frame handed over by the last tick did not reach the screen.
PresentFailed == lastEvent.type = "Tick" /\ screen # handed

\* C13: a presentation failure during a tick ends the process: nothing follows
\* it, neither an update, a draw, a present nor a second attempt.
C13_PresentFailureIsFatal ==
    /\ PresentFailed => aborted
    /\ aborted =>
          /\ PresentFailed
          /\ screen = lastEvent.before.screen
          /\ counts.present = lastEvent.before.counts.present + 1
          /\ ~ENABLED NextDriver

\* The third frame fails to present while the second one is on the screen.
C13_Witness ==
    /\ aborted
    /\ counts.present = 3
    /\ screen.frame = 2
    /\ handed.frame = 3

\* C14: handling a tick leaves the input accumulator as it was, so a key
\* recorded before one tick is still seen by the update of the next tick when
\* no input event came between them.
C14_TickKeepsAccumulator ==
    lastEvent.type = "Tick" =>
        /\ input = lastEvent.before.input
        /\ lastEvent.after = "Tick" =>
              /\ game.seen = lastEvent.before.game.seen
              /\ game.seen = input

\* Two ticks in a row, both of which saw a key pressed before the first.
C14_Witness ==
    /\ lastEvent.type = "Tick"
    /\ lastEvent.after = "Tick"
    /\ counts.update >= 2
    /\ game.seen.keys # {}
    /\ lastEvent.before.game.seen.keys = game.seen.keys

\* ------------------------------------------------------ claims on the map

\* C15: mget and mset never reach outside the map array: an index
\* cel_x + cel_y * WIDTH_SPRITES that passes the assertion is below the size
\* of the map.
C15_AssertedIndexInBounds ==
    (mapOp.op \in {"mget", "mset"} /\ mapOp.outcome # "assertion failed")
        => mapOp.result.index < MAP_SIZE

UpperHexChars == {"0", "1", "2", "3", "4", "5", "6", "7", "8", "9",
                  "A", "B", "C", "D", "E", "F"}

\* The text is two upper-case hex digits a cell, a space between the cells of
\* a row and a line break between rows of WIDTH_SPRITES cells.
MapTextShape(str) ==
    /\ Len(str) = 3 * MAP_SIZE - 1
    /\ \A p \in 1..Len(str) :
          IF p % 3 = 0
          THEN str[p] = (IF (p \div 3) % WIDTH_SPRITES = 0 THEN "\n" ELSE " ")
          ELSE str[p] \in UpperHexChars

\* C17: serialization round-trips: deserialize(serialize(m)) is Ok with a map
\* equal to m cell for cell, the text being two upper-case hex digits a cell,
\* spaces between cells and line breaks between rows.
C17_SerializeRoundTrips ==
    /\ mapOp.op = "serialize" =>
          /\ MapTextShape(text)
          /\ Deserialize(text) = [ok |-> TRUE, map |-> map, error |-> 0]
    /\ (mapOp.op = "deserialize" /\ mapOp.after = "serialize") =>
          /\ loaded.ok
          /\ \A i \in 0..(MAP_SIZE - 1) : loaded.map[i] = map[i]

\* A map holding 0x0A and 0xAB, saved and read back.
C17_Witness ==
    /\ mapOp.op = "deserialize"
    /\ mapOp.after = "serialize"
    /\ loaded.ok
    /\ \E i, j \in 0..(MAP_SIZE - 1) : loaded.map[i] = 10 /\ loaded.map[j] = 171

InRange(cel_x, cel_y) == cel_x < WIDTH_SPRITES /\ cel_y < HEIGHT_SPRITES

\* C18: after mset(cel_x, cel_y, s) on a cell in range, mget(cel_x, cel_y)
\* returns s and every other cell holds what it held; mget leaves the map as
\* it is.
C18_MsetThenMget ==
    /\ (mapOp.op = "mset" /\ InRange(mapOp.args[1], mapOp.args[2])) =>
          /\ mapOp.outcome = "ok"
          /\ MapMget(map, mapOp.args[1], mapOp.args[2]).outcome = "ok"
          /\ MapMget(map, mapOp.args[1], mapOp.args[2]).value = mapOp.args[3]
          /\ \A x \in 0..(WIDTH_SPRITES - 1), y \in 0..(HEIGHT_SPRITES - 1) :
                <<x, y>> # <<mapOp.args[1], mapOp.args[2]>> =>
                    MapMget(map, x, y) = MapMget(mapOp.before, x, y)
    /\ mapOp.op = "mget" =>
          /\ map = mapOp.before
          /\ InRange(mapOp.args[1], mapOp.args[2]) =>
                /\ mapOp.outcome = "ok"
                /\ mapOp.result.value
                      = mapOp.before[mapOp.args[1] + mapOp.args[2] * WIDTH_SPRITES]

\* An mset changed the last cell of a map that from_slice had built.
C18_Witness ==
    /\ mapOp.op = "mset"
    /\ mapOp.after = "from_slice"
    /\ mapOp.args[1] = WIDTH_SPRITES - 1
    /\ mapOp.args[2] = HEIGHT_SPRITES - 1
    /\ mapOp.before # MapNew
    /\ map[MAP_SIZE - 1] # mapOp.before[MAP_SIZE - 1]

HexValue(c) ==
    CASE c = "0" -> 0 [] c = "1" -> 1 [] c = "2" -> 2 [] c = "3" -> 3
      [] c = "4" -> 4 [] c = "5" -> 5 [] c = "6" -> 6 [] c = "7" -> 7
      [] c = "8" -> 8 [] c = "9" -> 9
      [] c \in {"a", "A"} -> 10 [] c \in {"b", "B"} -> 11 [] c \in {"c", "C"} -> 12
      [] c \in {"d", "D"} -> 13 [] c \in {"e", "E"} -> 14 [] c \in {"f", "F"} -> 15

HexChars == UpperHexChars \cup {"a", "b", "c", "d", "e", "f"}
HexOf(str) == SelectSeq(str, LAMBDA c : c \in HexChars)

\* C19: deserialize returns Ok exactly when the hex digits of the input, all
\* other characters left out, make MAP_SIZE complete pairs (a last digit
\* without a partner is not a pair and is left out too); cell i is then
\* 16 * high + low of the i-th pair; otherwise it returns the error and no map.
C19_OkIffMapSizePairs ==
    mapOp.op = "deserialize" =>
        LET hex == HexOf(text)
        IN  /\ loaded.ok <=> (Len(hex) \div 2 = MAP_SIZE)
            /\ loaded.ok =>
                  /\ DOMAIN loaded.map = 0..(MAP_SIZE - 1)
                  /\ \A i \in 0..(MAP_SIZE - 1) :
                        loaded.map[i] = 16 * HexValue(hex[2 * i + 1])
                                            + HexValue(hex[2 * i + 2])
            /\ ~loaded.ok =>
                  /\ loaded.map = <<>>
                  /\ loaded.error = Len(hex) \div 2

\* A lower-case digit and a letter typed into the saved text: the pairs
\* shifted, the last digit left over, and the text still read as a map.
C19_Witness ==
    /\ mapOp.op = "deserialize"
    /\ loaded.ok
    /\ Len(HexOf(text)) = 2 * MAP_SIZE + 1
    /\ \E p, q \in 1..Len(text) : text[p] = "f" /\ text[q] = "G"
    /\ loaded.map # map

\* A digit deleted from the saved text: it is refused.
C19_WitnessRefused ==
    /\ mapOp.op = "deserialize"
    /\ ~loaded.ok
    /\ Len(HexOf(text)) = 2 * MAP_SIZE - 1

====
